---- MODULE Spec2Model ----
(***************************************************************************)
(* CloudIPAM: the CIDR forest of src/src/cidrtree.py (CIDRNode, CIDRTree). *)
(*                                                                         *)
(* A text is a record [ver, addr, len, form]: the address written in it    *)
(* (host bits included), the prefix length written in it and its spelling  *)
(* ("plain": address/prefixlen, "mask": address/netmask, "bad": not a      *)
(* CIDR at all).  Addresses are scaled down to Bits4 / Bits6 bits.         *)
(* An item handed to the tree is a text (obj = 0) or a CIDR object of      *)
(* ipam.py (obj > 0 names the object, the other fields are its network).   *)
(*                                                                         *)
(* The IPAM of src/src/ipam.py keeps its blocks in self.cidrs and owns a   *)
(* CIDRTree, which is the tree of this module.                             *)
(***************************************************************************)
EXTENDS Integers, Sequences, FiniteSets, TLC

VARIABLES
  heap,      \* the CIDRNode objects in use, by identity
  roots,     \* CIDRTree.roots: a list of node identities
  cidr_map,  \* CIDRTree.cidr_map: a dict, as the list of its items
  cidr_list, \* the caller's list of blocks (as in main(): built in one go, or added one by one)
  ret,       \* how the last call ended
  op,        \* the last call
  arg,       \* the list of arguments of the last call
  self_cidrs,     \* IPAM.cidrs: a dict, as the list of its items
  _cidrs_loaded,  \* IPAM._cidrs_loaded
  cloud_provider, \* IPAM.cloud_provider
  value           \* what the last call of the IPAM returned

vars == <<heap, roots, cidr_map, cidr_list, ret, op, arg,
          self_cidrs, _cidrs_loaded, cloud_provider, value>>

(* ------------------------------ bounds --------------------------------- *)
\* address width of the scaled IPv4 and IPv6 address spaces
Bits4 == 2
Bits6 == 3
\* longest list of blocks the caller holds
MaxListLen == 3

(* --------------------------- ipaddress --------------------------------- *)
None == 0

Bits(v) == IF v = 4 THEN Bits4 ELSE Bits6

\* ipaddress.ip_network(text), strict: ok = FALSE stands for ValueError
ip_network(s) ==
  LET w    == Bits(s.ver)
      good == s.form # "bad" /\ s.len <= w
      size == IF good THEN 2 ^ (w - s.len) ELSE 1
  IN  [ok                |-> good /\ s.addr % size = 0,
       version           |-> s.ver,
       network_address   |-> s.addr,
       broadcast_address |-> s.addr + size - 1,
       prefixlen         |-> s.len]

\* str(network): the canonical text of a network
str_network(n) ==
  [ver |-> n.version, addr |-> n.network_address, len |-> n.prefixlen, form |-> "plain"]

\* hasattr(cidr, 'cidr')
hasattr_cidr(item) == item.obj # 0

\* the text an item is indexed under: str(cidr.cidr) for an object, str(cidr) for a text
cidr_str_of(item) ==
  IF hasattr_cidr(item)
  THEN str_network(ip_network([ver |-> item.ver, addr |-> item.addr, len |-> item.len, form |-> item.form]))
  ELSE [ver |-> item.ver, addr |-> item.addr, len |-> item.len, form |-> item.form]

\* cidr_obj = None
NoneObj == [obj |-> 0, ver |-> 0, addr |-> 0, len |-> 0, form |-> "none"]

cidr_obj_of(item) == IF hasattr_cidr(item) THEN item ELSE NoneObj

(* ----------------------------- inputs ---------------------------------- *)
\* the text of version v whose first len bits are pfx and whose other bits are host
Text(v, pfx, len, host, form) ==
  [obj |-> 0, ver |-> v, addr |-> pfx * 2 ^ (Bits(v) - len) + host, len |-> len, form |-> form]

A4 == Text(4, 0, 0, 0, "plain")
B4 == Text(4, 0, 1, 0, "plain")
C4 == Text(4, 0, 2, 0, "plain")
D4 == Text(4, 1, 1, 0, "plain")
F6 == Text(6, 0, 1, 0, "plain")
MaskB4 == Text(4, 0, 1, 0, "mask")
HostBitsB4 == Text(4, 0, 1, 1, "plain")
Malformed == Text(4, 0, 0, 0, "bad")
ObjB1 == [B4 EXCEPT !.obj = 1]
ObjB2 == [B4 EXCEPT !.obj = 2]

ValidTexts == {A4, B4, C4, D4, F6}
Inputs == ValidTexts \cup {MaskB4, HostBitsB4, Malformed, ObjB1, ObjB2}

RECURSIVE SeqsUpTo(_, _)
SeqsUpTo(S, n) ==
  IF n = 0 THEN {<<>>}
  ELSE LET shorter == SeqsUpTo(S, n - 1)
       IN  shorter \cup {Append(q, x) : q \in {r \in shorter : Len(r) = n - 1}, x \in S}

(* --------------------------- sequences --------------------------------- *)
InSeq(s, x) == \E i \in 1..Len(s) : s[i] = x

\* list.remove(x): drops the first occurrence (the caller checks x is there)
Remove(s, x) ==
  LET i == CHOOSE k \in 1..Len(s) : s[k] = x /\ \A j \in 1..(k - 1) : s[j] # x
  IN  SubSeq(s, 1, i - 1) \o SubSeq(s, i + 1, Len(s))

\* the index is a dict: a list of [key, node] in insertion order
MapHas(m, k) == \E i \in 1..Len(m) : m[i].key = k
MapGet(m, k) == m[CHOOSE i \in 1..Len(m) : m[i].key = k].node
MapKeys(m) == {m[i].key : i \in 1..Len(m)}
MapDel(m, k) ==
  LET i == CHOOSE j \in 1..Len(m) : m[j].key = k
  IN  SubSeq(m, 1, i - 1) \o SubSeq(m, i + 1, Len(m))

\* a node object not in use: the least identity that no live node has
NewId(used) == CHOOSE i \in 1..(Cardinality(used) + 1) :
                  i \notin used /\ \A j \in 1..(i - 1) : j \in used

(* ----------------------------- CIDRNode -------------------------------- *)
CIDRNode(cidr, cidr_obj) ==
  [cidr |-> cidr, cidr_obj |-> cidr_obj, children |-> <<>>, parent |-> None]

\* mutant of is_parent_of: the versions are not compared
is_parent_of_any_version(self, other) ==
  LET a == ip_network(self.cidr)
      b == ip_network(other.cidr)
  IN  /\ a.network_address <= b.network_address
      /\ a.broadcast_address >= b.broadcast_address
      /\ a.prefixlen < b.prefixlen

\* mutant of is_parent_of: a block of the same prefix length counts as a parent
is_parent_of_or_equal(self, other) ==
  LET a == ip_network(self.cidr)
      b == ip_network(other.cidr)
  IN  IF a.version # b.version THEN FALSE
      ELSE /\ a.network_address <= b.network_address
           /\ a.broadcast_address >= b.broadcast_address
           /\ a.prefixlen <= b.prefixlen

\* the second definition of the class body is the one in force
is_parent_of(self, other) ==
  LET a == ip_network(self.cidr)
      b == ip_network(other.cidr)
  IN  IF a.version # b.version THEN FALSE
      ELSE /\ a.network_address <= b.network_address
           /\ a.broadcast_address >= b.broadcast_address
           /\ a.prefixlen < b.prefixlen

(* ----------------------------- CIDRTree -------------------------------- *)
\* the tree as a value: the nodes by identity, the root list and the index
Tree(h, r, m) == [heap |-> h, roots |-> r, cidr_map |-> m]

\* CIDRTree.__init__
EmptyTree == Tree([i \in {} |-> None], <<>>, <<>>)

Returned == [exc |-> "none", printed |-> FALSE]
Reported == [exc |-> "none", printed |-> TRUE]
Raised(e) == [exc |-> e, printed |-> TRUE]

\* mutant of _find_parent_scan: the first containing block found is kept
RECURSIVE _find_parent_scan_first_found(_, _, _, _)
_find_parent_scan_first_found(t, cidr, i, parent) ==
  IF i > Len(t.cidr_map) THEN parent
  ELSE LET existing_cidr    == t.cidr_map[i].key
           existing_node    == t.cidr_map[i].node
           network          == ip_network(cidr)
           existing_network == ip_network(existing_cidr)
           better ==
             /\ existing_cidr # cidr
             /\ existing_network.ok
             /\ existing_network.version = network.version
             /\ existing_network.network_address <= network.network_address
             /\ existing_network.broadcast_address >= network.broadcast_address
             /\ existing_network.prefixlen < network.prefixlen
             /\ parent = None
       IN  _find_parent_scan_first_found(t, cidr, i + 1,
                                         IF better THEN existing_node ELSE parent)

\* the loop of _find_parent over cidr_map.items(), from position i on
RECURSIVE _find_parent_scan(_, _, _, _)
_find_parent_scan(t, cidr, i, parent) ==
  IF i > Len(t.cidr_map) THEN parent
  ELSE LET existing_cidr    == t.cidr_map[i].key
           existing_node    == t.cidr_map[i].node
           network          == ip_network(cidr)
           existing_network == ip_network(existing_cidr)
           better ==
             /\ existing_cidr # cidr
             /\ existing_network.ok
             /\ existing_network.version = network.version
             /\ existing_network.network_address <= network.network_address
             /\ existing_network.broadcast_address >= network.broadcast_address
             /\ existing_network.prefixlen < network.prefixlen
             /\ \/ parent = None
                \/ ip_network(t.heap[parent].cidr).prefixlen < existing_network.prefixlen
       IN  _find_parent_scan(t, cidr, i + 1, IF better THEN existing_node ELSE parent)

\* mutant of _find_parent: the first other block of the index is taken for the parent,
\* whether it contains the block or not
_find_parent_first_other(t, cidr) ==
  IF ip_network(cidr).ok /\ \E i \in 1..Len(t.cidr_map) : t.cidr_map[i].key # cidr
  THEN t.cidr_map[CHOOSE i \in 1..Len(t.cidr_map) :
                    /\ t.cidr_map[i].key # cidr
                    /\ \A j \in 1..(i - 1) : t.cidr_map[j].key = cidr].node
  ELSE None

_find_parent(t, cidr) ==
  IF ip_network(cidr).ok THEN _find_parent_scan(t, cidr, 1, None) ELSE None

\* mutant of children_to_remove: no existing node is moved under the new node
children_to_remove_none(t, node) == <<>>

\* mutant of children_to_remove: every node of the index of the new node's IP version is
\* moved under the new node
children_to_remove_same_version(t, node) ==
  SelectSeq([i \in 1..Len(t.cidr_map) |-> t.cidr_map[i].node],
            LAMBDA e : ip_network(t.heap[e].cidr).version = ip_network(node.cidr).version)

\* the nodes of the index, in its order, that the new node is a parent of
children_to_remove(t, node) ==
  SelectSeq([i \in 1..Len(t.cidr_map) |-> t.cidr_map[i].node],
            LAMBDA e : is_parent_of(node, t.heap[e]))

\* mutant of reparent: the child is not taken out of its old parent's child list
RECURSIVE reparent_keeps_old_link(_, _, _, _)
reparent_keeps_old_link(t, n, cs, i) ==
  IF i > Len(cs) THEN [tree |-> t, err |-> FALSE]
  ELSE LET child == cs[i]
           h2    == [t.heap EXCEPT ![n].children = Append(@, child), ![child].parent = n]
           r2    == IF InSeq(t.roots, child) THEN Remove(t.roots, child) ELSE t.roots
       IN  reparent_keeps_old_link(Tree(h2, r2, t.cidr_map), n, cs, i + 1)

\* mutant of reparent: a child that was a root stays in roots
RECURSIVE reparent_keeps_root(_, _, _, _)
reparent_keeps_root(t, n, cs, i) ==
  IF i > Len(cs) THEN [tree |-> t, err |-> FALSE]
  ELSE LET child == cs[i]
           p     == t.heap[child].parent
           h1    == IF p # None
                    THEN [t.heap EXCEPT ![p].children = Remove(@, child)]
                    ELSE t.heap
           h2    == [h1 EXCEPT ![n].children = Append(@, child), ![child].parent = n]
       IN  reparent_keeps_root(Tree(h2, t.roots, t.cidr_map), n, cs, i + 1)

\* mutant of reparent: the node that is moved is made anew, without its attached object
RECURSIVE reparent_drops_object(_, _, _, _)
reparent_drops_object(t, n, cs, i) ==
  IF i > Len(cs) THEN [tree |-> t, err |-> FALSE]
  ELSE LET child == cs[i]
           p     == t.heap[child].parent
           h1    == IF p # None
                    THEN [t.heap EXCEPT ![p].children = Remove(@, child)]
                    ELSE t.heap
           h2    == [h1 EXCEPT ![n].children = Append(@, child),
                               ![child].parent = n,
                               ![child].cidr_obj = NoneObj]
           r2    == IF InSeq(t.roots, child) THEN Remove(t.roots, child) ELSE t.roots
       IN  reparent_drops_object(Tree(h2, r2, t.cidr_map), n, cs, i + 1)

\* the loop "Reparent any children" of add_cidr, from position i on;
\* err: list.remove raised ValueError
RECURSIVE reparent(_, _, _, _)
reparent(t, n, cs, i) ==
  IF i > Len(cs) THEN [tree |-> t, err |-> FALSE]
  ELSE LET child == cs[i]
           p     == t.heap[child].parent
       IN  IF p # None /\ ~InSeq(t.heap[p].children, child)
           THEN [tree |-> t, err |-> TRUE]
           ELSE LET h1 == IF p # None
                          THEN [t.heap EXCEPT ![p].children = Remove(@, child)]
                          ELSE t.heap
                    h2 == [h1 EXCEPT ![n].children = Append(@, child),
                                     ![child].parent = n]
                    r2 == IF InSeq(t.roots, child) THEN Remove(t.roots, child) ELSE t.roots
                IN  reparent(Tree(h2, r2, t.cidr_map), n, cs, i + 1)

\* mutant of already_added: the check "if cidr_str in self.cidr_map" is lost
already_added_never(t, cidr_str) == FALSE

\* "cidr_str in self.cidr_map" at the head of add_cidr
already_added(t, cidr_str) == MapHas(t.cidr_map, cidr_str)

\* mutant of add_cidr_call: the node of a rejected string is put in the index before
\* the string is read, and the handler leaves it there
add_cidr_call_keeps_partial_node(t, cidr) ==
  LET cidr_str == cidr_str_of(cidr)
      cidr_obj == cidr_obj_of(cidr)
  IN  IF already_added(t, cidr_str) THEN [tree |-> t, ret |-> Returned]
      ELSE IF ~ip_network(cidr_str).ok
      THEN LET n == NewId(DOMAIN t.heap)
           IN  [tree |-> Tree([i \in DOMAIN t.heap \cup {n} |->
                                 IF i = n THEN CIDRNode(cidr_str, cidr_obj) ELSE t.heap[i]],
                              t.roots,
                              Append(t.cidr_map, [key |-> cidr_str, node |-> n])),
                ret  |-> Reported]
      ELSE
        LET n      == NewId(DOMAIN t.heap)
            node   == CIDRNode(cidr_str, cidr_obj)
            cs     == children_to_remove(t, node)
            m1     == Append(t.cidr_map, [key |-> cidr_str, node |-> n])
            h1     == [i \in DOMAIN t.heap \cup {n} |-> IF i = n THEN node ELSE t.heap[i]]
            parent == _find_parent(Tree(h1, t.roots, m1), cidr_str)
            t2     == IF parent = None
                      THEN Tree(h1, Append(t.roots, n), m1)
                      ELSE Tree([h1 EXCEPT ![parent].children = Append(@, n),
                                           ![n].parent = parent],
                                t.roots, m1)
            done   == reparent(t2, n, cs, 1)
        IN  IF done.err
            THEN [tree |-> Tree(done.tree.heap, done.tree.roots, MapDel(m1, cidr_str)),
                  ret  |-> Reported]
            ELSE [tree |-> done.tree, ret |-> Returned]

\* CIDRTree.add_cidr as a function of the tree: the tree and the outcome after the call
add_cidr_call(t, cidr) ==
  LET cidr_str == cidr_str_of(cidr)
      cidr_obj == cidr_obj_of(cidr)
  IN  IF already_added(t, cidr_str) THEN [tree |-> t, ret |-> Returned]
      ELSE IF ~ip_network(cidr_str).ok THEN [tree |-> t, ret |-> Reported]
      ELSE
        LET n      == NewId(DOMAIN t.heap)
            node   == CIDRNode(cidr_str, cidr_obj)
            cs     == children_to_remove(t, node)
            m1     == Append(t.cidr_map, [key |-> cidr_str, node |-> n])
            h1     == [i \in DOMAIN t.heap \cup {n} |-> IF i = n THEN node ELSE t.heap[i]]
            parent == _find_parent(Tree(h1, t.roots, m1), cidr_str)
            t2     == IF parent = None
                      THEN Tree(h1, Append(t.roots, n), m1)
                      ELSE Tree([h1 EXCEPT ![parent].children = Append(@, n),
                                           ![n].parent = parent],
                                t.roots, m1)
            done   == reparent(t2, n, cs, 1)
        IN  IF done.err
            THEN [tree |-> Tree(done.tree.heap, done.tree.roots, MapDel(m1, cidr_str)),
                  ret  |-> Reported]
            ELSE [tree |-> done.tree, ret |-> Returned]

\* the entries (cidr_str, cidr, prefixlen) that build_tree_from_list sorts
cidr_entries(cidrs) ==
  [i \in 1..Len(cidrs) |->
     [cidr_str  |-> cidr_str_of(cidrs[i]),
      cidr      |-> cidrs[i],
      prefixlen |-> ip_network(cidr_str_of(cidrs[i])).prefixlen]]

\* the sort key (x[2], ip_network(x[0]).network_address), compared as Python compares tuples
key_less(a, b) ==
  \/ a.prefixlen < b.prefixlen
  \/ /\ a.prefixlen = b.prefixlen
     /\ ip_network(a.cidr_str).network_address < ip_network(b.cidr_str).network_address

\* an IPv4Address and an IPv6Address do not compare: the sort raises TypeError
\* as soon as two keys with the same prefixlen hold addresses of different versions
sort_raises(entries) ==
  \E i, j \in 1..Len(entries) :
     /\ entries[i].prefixlen = entries[j].prefixlen
     /\ ip_network(entries[i].cidr_str).version # ip_network(entries[j].cidr_str).version

\* mutant of sort_insert: the sort is not stable, e goes in front of the entries equal to it
sort_insert_before_equal(s, e) ==
  LET before == {i \in 1..Len(s) : \A j \in 1..i : key_less(s[j], e)}
      k      == Cardinality(before)
  IN  SubSeq(s, 1, k) \o <<e>> \o SubSeq(s, k + 1, Len(s))

\* e put into the sorted list s behind every entry that is not greater (list.sort is stable)
sort_insert(s, e) ==
  LET before == {i \in 1..Len(s) : \A j \in 1..i : ~key_less(e, s[j])}
      k      == Cardinality(before)
  IN  SubSeq(s, 1, k) \o <<e>> \o SubSeq(s, k + 1, Len(s))

\* mutant of sorted_entries: the entries are sorted the longest prefix first
RECURSIVE sorted_entries_longest_first(_)
sorted_entries_longest_first(entries) ==
  IF entries = <<>> THEN <<>>
  ELSE LET s == sorted_entries_longest_first(SubSeq(entries, 1, Len(entries) - 1))
           e == entries[Len(entries)]
           k == Cardinality({i \in 1..Len(s) : \A j \in 1..i : ~key_less(s[j], e)})
       IN  SubSeq(s, 1, k) \o <<e>> \o SubSeq(s, k + 1, Len(s))

\* mutant of sorted_entries: the entries are not sorted
unsorted_entries(entries) == entries

\* cidr_entries.sort(key=...)
RECURSIVE sorted_entries(_)
sorted_entries(entries) ==
  IF entries = <<>> THEN <<>>
  ELSE sort_insert(sorted_entries(SubSeq(entries, 1, Len(entries) - 1)),
                   entries[Len(entries)])

\* mutant of best_parent: the first containing block found is kept
RECURSIVE best_parent_first_found(_, _, _, _, _)
best_parent_first_found(t, cidr_str, i, parent, parent_prefix_len) ==
  IF i > Len(t.cidr_map) THEN parent
  ELSE LET existing_cidr == t.cidr_map[i].key
           existing_net  == ip_network(existing_cidr)
           current_net   == ip_network(cidr_str)
           better ==
             /\ existing_cidr # cidr_str
             /\ existing_net.version = current_net.version
             /\ existing_net.network_address <= current_net.network_address
             /\ existing_net.broadcast_address >= current_net.broadcast_address
             /\ existing_net.prefixlen < current_net.prefixlen
             /\ parent = None
       IN  IF better
           THEN best_parent_first_found(t, cidr_str, i + 1, t.cidr_map[i].node,
                                        existing_net.prefixlen)
           ELSE best_parent_first_found(t, cidr_str, i + 1, parent, parent_prefix_len)

\* the loop "Find the best parent" of build_tree_from_list, from position i on
RECURSIVE best_parent(_, _, _, _, _)
best_parent(t, cidr_str, i, parent, parent_prefix_len) ==
  IF i > Len(t.cidr_map) THEN parent
  ELSE LET existing_cidr == t.cidr_map[i].key
           existing_net  == ip_network(existing_cidr)
           current_net   == ip_network(cidr_str)
           better ==
             /\ existing_cidr # cidr_str
             /\ existing_net.version = current_net.version
             /\ existing_net.network_address <= current_net.network_address
             /\ existing_net.broadcast_address >= current_net.broadcast_address
             /\ existing_net.prefixlen < current_net.prefixlen
             /\ existing_net.prefixlen > parent_prefix_len
       IN  IF better
           THEN best_parent(t, cidr_str, i + 1, t.cidr_map[i].node, existing_net.prefixlen)
           ELSE best_parent(t, cidr_str, i + 1, parent, parent_prefix_len)

\* the loop "Add CIDRs in order" of build_tree_from_list, from position i on;
\* old: the nodes of the tree that is being replaced, which are still allocated
RECURSIVE build_loop(_, _, _, _)
build_loop(t, old, entries, i) ==
  IF i > Len(entries) THEN t
  ELSE LET e == entries[i]
       IN  IF MapHas(t.cidr_map, e.cidr_str) THEN build_loop(t, old, entries, i + 1)
           ELSE
             LET n      == NewId(old \cup DOMAIN t.heap)
                 node   == CIDRNode(e.cidr_str, cidr_obj_of(e.cidr))
                 m1     == Append(t.cidr_map, [key |-> e.cidr_str, node |-> n])
                 h1     == [k \in DOMAIN t.heap \cup {n} |-> IF k = n THEN node ELSE t.heap[k]]
                 parent == best_parent(Tree(h1, t.roots, m1), e.cidr_str, 1, None, -1)
                 t2     == IF parent # None
                           THEN Tree([h1 EXCEPT ![parent].children = Append(@, n),
                                                ![n].parent = parent],
                                     t.roots, m1)
                           ELSE Tree(h1, Append(t.roots, n), m1)
             IN  build_loop(t2, old, entries, i + 1)

\* mutant of build_tree_from_list_call: "Clear existing tree" comes before the sort, so a
\* sort that raises leaves an empty tree
build_tree_from_list_call_clears_first(t, cidrs) ==
  IF cidrs = <<>> THEN [tree |-> t, ret |-> Returned]
  ELSE IF \E i \in 1..Len(cidrs) : ~ip_network(cidr_str_of(cidrs[i])).ok
  THEN [tree |-> t, ret |-> Raised("ValueError")]
  ELSE IF sort_raises(cidr_entries(cidrs))
  THEN [tree |-> Tree(t.heap, <<>>, <<>>), ret |-> Raised("TypeError")]
  ELSE [tree |-> build_loop(EmptyTree, DOMAIN t.heap, sorted_entries(cidr_entries(cidrs)), 1),
        ret  |-> Returned]

\* CIDRTree.build_tree_from_list as a function of the tree
build_tree_from_list_call(t, cidrs) ==
  IF cidrs = <<>> THEN [tree |-> t, ret |-> Returned]
  ELSE IF \E i \in 1..Len(cidrs) : ~ip_network(cidr_str_of(cidrs[i])).ok
  THEN [tree |-> t, ret |-> Raised("ValueError")]
  ELSE IF sort_raises(cidr_entries(cidrs))
  THEN [tree |-> t, ret |-> Raised("TypeError")]
  ELSE [tree |-> build_loop(EmptyTree, DOMAIN t.heap, sorted_entries(cidr_entries(cidrs)), 1),
        ret  |-> Returned]

TheTree == Tree(heap, roots, cidr_map)

\* IPAM(cloud_provider=None)
NoProvider == [kind |-> "none", file |-> <<>>]

\* tree.add_cidr(cidr)
add_cidr(cidr) ==
  /\ \E r \in {add_cidr_call(TheTree, cidr)} :
       /\ heap' = r.tree.heap
       /\ roots' = r.tree.roots
       /\ cidr_map' = r.tree.cidr_map
       /\ ret' = r.ret
  /\ op' = "add_cidr"
  /\ arg' = <<cidr>>
  /\ UNCHANGED <<cidr_list, self_cidrs, _cidrs_loaded, cloud_provider, value>>

\* tree.build_tree_from_list(cidrs)
build_tree_from_list(cidrs) ==
  /\ \E r \in {build_tree_from_list_call(TheTree, cidrs)} :
       /\ heap' = r.tree.heap
       /\ roots' = r.tree.roots
       /\ cidr_map' = r.tree.cidr_map
       /\ ret' = r.ret
  /\ op' = "build_tree_from_list"
  /\ arg' = cidrs
  /\ UNCHANGED <<cidr_list, self_cidrs, _cidrs_loaded, cloud_provider, value>>

Lists == SeqsUpTo(Inputs, MaxListLen)

\* no IPAM is in play
NoIPAM ==
  /\ self_cidrs = <<>>
  /\ _cidrs_loaded = FALSE
  /\ cloud_provider = NoProvider
  /\ value = NoneObj

\* a tree is constructed; the caller holds any list of blocks
Init ==
  /\ heap = EmptyTree.heap
  /\ roots = EmptyTree.roots
  /\ cidr_map = EmptyTree.cidr_map
  /\ cidr_list \in Lists
  /\ ret = Returned
  /\ op = "init"
  /\ arg = <<>>
  /\ NoIPAM

\* the caller adds any block of its list
AddAny == \E i \in 1..Len(cidr_list) : add_cidr(cidr_list[i])

\* the caller builds from its list, or from an empty list
BuildAny == build_tree_from_list(cidr_list) \/ build_tree_from_list(<<>>)

Next == AddAny \/ BuildAny

\* add_cidr and build_tree_from_list in any interleaving
Spec == Init /\ [][Next]_vars

\* add_cidr only, on a tree that starts empty
SpecAdd == Init /\ [][AddAny]_vars

(* ------------------------------- ipam.py ------------------------------- *)
\* CIDR.__init__ on a block string; ok = FALSE stands for ValueError.  CIDR objects are
\* equal and hash by their network (__eq__, __hash__): the IPAM's objects are told apart
\* by network and cidr_type, not by identity
CIDR(cidr, cidr_type) ==
  LET n == ip_network(cidr)
  IN  [ok  |-> n.ok,
       obj |-> [obj |-> 1, ver |-> n.version, addr |-> n.network_address,
                len |-> n.prefixlen, form |-> "plain", cidr_type |-> cidr_type]]

\* self.cidr of a CIDR object
cidr_of(c) == ip_network(cidr_str_of(c))

\* CIDR.__eq__
CIDR_eq(a, b) ==
  /\ cidr_of(a).version = cidr_of(b).version
  /\ cidr_of(a).network_address = cidr_of(b).network_address
  /\ cidr_of(a).prefixlen = cidr_of(b).prefixlen

\* a.subnet_of(b) on two networks of one version (it raises TypeError on two versions)
subnet_of(a, b) ==
  /\ b.network_address <= a.network_address
  /\ b.broadcast_address >= a.broadcast_address

\* CIDR.is_child_of
is_child_of(self, other) == subnet_of(cidr_of(self), cidr_of(other))

\* network.subnets(new_prefix=p); ok = FALSE stands for ValueError
subnets(n, new_prefix) ==
  LET w    == Bits(n.version)
      step == 2 ^ (w - new_prefix)
  IN  IF n.prefixlen = w THEN [ok |-> TRUE, nets |-> <<n>>]
      ELSE IF new_prefix < n.prefixlen \/ new_prefix > w THEN [ok |-> FALSE, nets |-> <<>>]
      ELSE [ok   |-> TRUE,
            nets |-> [i \in 1..(2 ^ (new_prefix - n.prefixlen)) |->
                        [ok                |-> TRUE,
                         version           |-> n.version,
                         network_address   |-> n.network_address + (i - 1) * step,
                         broadcast_address |-> n.network_address + i * step - 1,
                         prefixlen         |-> new_prefix]]]

\* ipaddress.ip_address(text); ok = FALSE stands for ValueError
ip_address(a) == [ok |-> a.form # "bad", version |-> a.ver, addr |-> a.addr]

\* "ip in network"
address_in(ip, n) ==
  /\ ip.version = n.version
  /\ n.network_address <= ip.addr
  /\ ip.addr <= n.broadcast_address

\* self.cidrs is a dict: a list of [key, value] in insertion order
cidrs_has(d, k) == \E i \in 1..Len(d) : d[i].key = k
cidrs_get(d, k) == IF cidrs_has(d, k) THEN d[CHOOSE i \in 1..Len(d) : d[i].key = k].value
                   ELSE NoneObj
cidrs_values(d) == [i \in 1..Len(d) |-> d[i].value]
cidrs_set(d, k, v) ==
  IF cidrs_has(d, k)
  THEN [i \in 1..Len(d) |-> IF d[i].key = k THEN [key |-> k, value |-> v] ELSE d[i]]
  ELSE Append(d, [key |-> k, value |-> v])

\* the IPAM as a value
IPAM(d, t, loaded, provider) ==
  [cidrs |-> d, cidr_tree |-> t, _cidrs_loaded |-> loaded, cloud_provider |-> provider]

\* TestProvider(file_path), with the blocks its file holds
TestProvider(file) == [kind |-> "TestProvider", file |-> file]

\* one CIDR object per block string of a file, from position i on, until one is refused
RECURSIVE make_cidrs(_, _, _, _)
make_cidrs(file, cidr_type, i, made) ==
  IF i > Len(file) THEN [ok |-> TRUE, cidrs |-> made]
  ELSE LET c == CIDR(file[i], cidr_type)
       IN  IF ~c.ok THEN [ok |-> FALSE, cidrs |-> made]
           ELSE make_cidrs(file, cidr_type, i + 1, Append(made, c.obj))

\* self.cidrs[str(cidr.cidr)] = cidr for every object of a list, from position i on
RECURSIVE store(_, _, _)
store(d, objs, i) ==
  IF i > Len(objs) THEN d
  ELSE store(cidrs_set(d, cidr_str_of(objs[i]), objs[i]), objs, i + 1)

\* IPAM._get_all_cidrs: the loaded objects, then those of the cloud provider; a provider
\* that fails gives a warning only
_get_all_cidrs(ipam) ==
  LET all_cidrs   == cidrs_values(ipam.cidrs)
      cloud_cidrs == make_cidrs(ipam.cloud_provider.file, "VPC", 1, <<>>)
  IN  IF ipam.cloud_provider = NoProvider THEN [cidrs |-> all_cidrs, printed |-> FALSE]
      ELSE IF cloud_cidrs.ok THEN [cidrs |-> all_cidrs \o cloud_cidrs.cidrs, printed |-> FALSE]
      ELSE [cidrs |-> all_cidrs, printed |-> TRUE]

\* IPAM._build_cidr_hierarchy
_build_cidr_hierarchy(ipam) ==
  LET all_cidrs == _get_all_cidrs(ipam)
      built     == build_tree_from_list_call(ipam.cidr_tree, all_cidrs.cidrs)
  IN  [ipam |-> [ipam EXCEPT !.cidr_tree = built.tree],
       ret  |-> [exc |-> built.ret.exc, printed |-> built.ret.printed \/ all_cidrs.printed]]

\* IPAM.load_static_cidrs on a file that holds the block strings file
load_static_cidrs_call(ipam, file) ==
  LET cidr_objects == make_cidrs(file, "STATIC", 1, <<>>)
      ipam1        == [ipam EXCEPT !.cidrs = store(ipam.cidrs, cidr_objects.cidrs, 1)]
  IN  IF ~cidr_objects.ok THEN [ipam |-> ipam, ret |-> Raised("ValueError")]
      ELSE IF ipam._cidrs_loaded THEN _build_cidr_hierarchy(ipam1)
      ELSE [ipam |-> ipam1, ret |-> Returned]

\* IPAM.load_cloud_cidrs: every block is stored as soon as its object is made
load_cloud_cidrs_call(ipam) ==
  LET cidr_objects == make_cidrs(ipam.cloud_provider.file, "VPC", 1, <<>>)
      ipam1        == [ipam EXCEPT !.cidrs = store(ipam.cidrs, cidr_objects.cidrs, 1)]
  IN  IF ipam.cloud_provider = NoProvider THEN [ipam |-> ipam, ret |-> Returned]
      ELSE IF ~cidr_objects.ok THEN [ipam |-> ipam1, ret |-> Raised("ValueError")]
      ELSE IF ipam._cidrs_loaded THEN _build_cidr_hierarchy(ipam1)
      ELSE [ipam |-> ipam1, ret |-> Returned]

\* IPAM.build_hierarchy
build_hierarchy_call(ipam) ==
  LET built == _build_cidr_hierarchy(ipam)
  IN  IF built.ret.exc # "none" THEN built
      ELSE [ipam |-> [built.ipam EXCEPT !._cidrs_loaded = TRUE], ret |-> built.ret]

\* max(containing_cidrs, key=prefixlen): the first of the greatest
max_prefixlen(cs) ==
  cs[CHOOSE i \in 1..Len(cs) :
       /\ \A j \in 1..Len(cs) : cidr_of(cs[j]).prefixlen <= cidr_of(cs[i]).prefixlen
       /\ \A j \in 1..(i - 1) : cidr_of(cs[j]).prefixlen < cidr_of(cs[i]).prefixlen]

\* IPAM.find_containing_cidr: the value returned
find_containing_cidr_call(ipam, address) ==
  LET ip               == ip_address(address)
      containing_cidrs == SelectSeq(cidrs_values(ipam.cidrs),
                                    LAMBDA c : address_in(ip, cidr_of(c)))
  IN  IF ~ip.ok \/ containing_cidrs = <<>> THEN NoneObj
      ELSE IF ipam._cidrs_loaded THEN max_prefixlen(containing_cidrs)
      ELSE containing_cidrs[1]

\* the uncaught exception of a call that prints nothing
Uncaught(e) == [exc |-> e, printed |-> FALSE]

\* mutant of get_child_cidrs_call: self.cidrs[parent_cidr] in place of self.cidrs.get, a key
\* that is not loaded raises KeyError
get_child_cidrs_raises_not_found(ipam, parent_cidr) ==
  LET parent  == cidrs_get(ipam.cidrs, parent_cidr)
      values  == cidrs_values(ipam.cidrs)
      potential_children ==
        SelectSeq(values, LAMBDA c : is_child_of(c, parent) /\ cidr_str_of(c) # parent_cidr)
      direct_children ==
        SelectSeq(potential_children,
                  LAMBDA c : ~\E i \in 1..Len(potential_children) :
                                /\ ~CIDR_eq(c, potential_children[i])
                                /\ is_child_of(c, potential_children[i]))
  IN  IF ~cidrs_has(ipam.cidrs, parent_cidr) THEN [ret |-> Uncaught("KeyError"), value |-> <<>>]
      ELSE IF \E i \in 1..Len(values) : cidr_of(values[i]).version # cidr_of(parent).version
      THEN [ret |-> Uncaught("TypeError"), value |-> <<>>]
      ELSE [ret |-> Returned, value |-> direct_children]

\* IPAM.get_child_cidrs: the outcome and the list returned
get_child_cidrs_call(ipam, parent_cidr) ==
  LET parent  == cidrs_get(ipam.cidrs, parent_cidr)
      values  == cidrs_values(ipam.cidrs)
      potential_children ==
        SelectSeq(values, LAMBDA c : is_child_of(c, parent) /\ cidr_str_of(c) # parent_cidr)
      direct_children ==
        SelectSeq(potential_children,
                  LAMBDA c : ~\E i \in 1..Len(potential_children) :
                                /\ ~CIDR_eq(c, potential_children[i])
                                /\ is_child_of(c, potential_children[i]))
  IN  IF ~cidrs_has(ipam.cidrs, parent_cidr) THEN [ret |-> Returned, value |-> <<>>]
      ELSE IF \E i \in 1..Len(values) : cidr_of(values[i]).version # cidr_of(parent).version
      THEN [ret |-> Uncaught("TypeError"), value |-> <<>>]
      ELSE [ret |-> Returned, value |-> direct_children]

\* the first network of nets, from position i on, whose string is not in existing_cidrs
RECURSIVE first_available(_, _, _)
first_available(nets, existing_cidrs, i) ==
  IF i > Len(nets) THEN 0
  ELSE IF str_network(nets[i]) \notin existing_cidrs THEN i
  ELSE first_available(nets, existing_cidrs, i + 1)

\* mutant of find_available_cidr_call: the test "if not parent" is lost, parent.cidr of
\* None raises AttributeError
find_available_cidr_unchecked(ipam, parent_cidr, prefix_length) ==
  LET parent         == cidrs_get(ipam.cidrs, parent_cidr)
      children       == get_child_cidrs_call(ipam, parent_cidr)
      existing_cidrs == {cidr_str_of(children.value[i]) : i \in 1..Len(children.value)}
      possible_cidrs == subnets(cidr_of(parent), prefix_length)
      found          == first_available(possible_cidrs.nets, existing_cidrs, 1)
  IN  IF children.ret.exc # "none" THEN [ret |-> children.ret, value |-> NoneObj]
      ELSE IF ~cidrs_has(ipam.cidrs, parent_cidr)
      THEN [ret |-> Uncaught("AttributeError"), value |-> NoneObj]
      ELSE IF ~possible_cidrs.ok THEN [ret |-> Uncaught("ValueError"), value |-> NoneObj]
      ELSE IF found = 0 THEN [ret |-> Returned, value |-> NoneObj]
      ELSE [ret   |-> Returned,
            value |-> CIDR(str_network(possible_cidrs.nets[found]), "STATIC").obj]

\* IPAM.find_available_cidr: the outcome and the object returned
find_available_cidr_call(ipam, parent_cidr, prefix_length) ==
  LET parent         == cidrs_get(ipam.cidrs, parent_cidr)
      children       == get_child_cidrs_call(ipam, parent_cidr)
      existing_cidrs == {cidr_str_of(children.value[i]) : i \in 1..Len(children.value)}
      possible_cidrs == subnets(cidr_of(parent), prefix_length)
      found          == first_available(possible_cidrs.nets, existing_cidrs, 1)
  IN  IF ~cidrs_has(ipam.cidrs, parent_cidr) THEN [ret |-> Returned, value |-> NoneObj]
      ELSE IF children.ret.exc # "none" THEN [ret |-> children.ret, value |-> NoneObj]
      ELSE IF ~possible_cidrs.ok THEN [ret |-> Uncaught("ValueError"), value |-> NoneObj]
      ELSE IF found = 0 THEN [ret |-> Returned, value |-> NoneObj]
      ELSE [ret   |-> Returned,
            value |-> CIDR(str_network(possible_cidrs.nets[found]), "STATIC").obj]

TheIPAM == IPAM(self_cidrs, TheTree, _cidrs_loaded, cloud_provider)

\* a call that changes the IPAM: r is the IPAM and the outcome after it
ipam_becomes(r) ==
  /\ self_cidrs' = r.ipam.cidrs
  /\ heap' = r.ipam.cidr_tree.heap
  /\ roots' = r.ipam.cidr_tree.roots
  /\ cidr_map' = r.ipam.cidr_tree.cidr_map
  /\ _cidrs_loaded' = r.ipam._cidrs_loaded
  /\ ret' = r.ret
  /\ value' = NoneObj
  /\ UNCHANGED <<cidr_list, cloud_provider>>

\* ipam.load_static_cidrs(file_path)
load_static_cidrs(file) ==
  /\ \E r \in {load_static_cidrs_call(TheIPAM, file)} : ipam_becomes(r)
  /\ op' = "load_static_cidrs"
  /\ arg' = file

\* ipam.load_cloud_cidrs()
load_cloud_cidrs ==
  /\ \E r \in {load_cloud_cidrs_call(TheIPAM)} : ipam_becomes(r)
  /\ op' = "load_cloud_cidrs"
  /\ arg' = <<>>

\* ipam.build_hierarchy()
build_hierarchy ==
  /\ \E r \in {build_hierarchy_call(TheIPAM)} : ipam_becomes(r)
  /\ op' = "build_hierarchy"
  /\ arg' = <<>>

\* mutant of ipam_unchanged: the block that find_available_cidr returns is stored in
\* self.cidrs
ipam_allocates ==
  /\ self_cidrs' = IF op' = "find_available_cidr" /\ value' # NoneObj
                   THEN cidrs_set(self_cidrs, cidr_str_of(value'), value')
                   ELSE self_cidrs
  /\ UNCHANGED <<heap, roots, cidr_map, cidr_list, _cidrs_loaded, cloud_provider>>

\* a call that only asks
ipam_unchanged ==
  UNCHANGED <<heap, roots, cidr_map, cidr_list, self_cidrs, _cidrs_loaded, cloud_provider>>

\* ipam.find_containing_cidr(ip_address)
find_containing_cidr(address) ==
  /\ value' = find_containing_cidr_call(TheIPAM, address)
  /\ ret' = Returned
  /\ op' = "find_containing_cidr"
  /\ arg' = <<address>>
  /\ ipam_unchanged

\* ipam.get_child_cidrs(parent_cidr)
get_child_cidrs(parent_cidr) ==
  /\ \E r \in {get_child_cidrs_call(TheIPAM, parent_cidr)} :
       /\ value' = r.value
       /\ ret' = r.ret
  /\ op' = "get_child_cidrs"
  /\ arg' = <<parent_cidr>>
  /\ ipam_unchanged

\* ipam.find_available_cidr(parent_cidr, prefix_length)
find_available_cidr(parent_cidr, prefix_length) ==
  /\ \E r \in {find_available_cidr_call(TheIPAM, parent_cidr, prefix_length)} :
       /\ value' = r.value
       /\ ret' = r.ret
  /\ op' = "find_available_cidr"
  /\ arg' = <<parent_cidr, prefix_length>>
  /\ ipam_unchanged

\* the items of a file: block strings
FileItems == ValidTexts \cup {MaskB4, Malformed}

\* the block strings a caller may ask about
Strings == {cidr_str_of(x) : x \in FileItems}

\* the addresses a caller may ask for: every address of both versions, and a text that is none
Addresses ==
  {[ver |-> 4, addr |-> a, form |-> "plain"] : a \in 0..(2 ^ Bits4 - 1)}
  \cup {[ver |-> 6, addr |-> a, form |-> "plain"] : a \in 0..(2 ^ Bits6 - 1)}
  \cup {[ver |-> 4, addr |-> 0, form |-> "bad"]}

\* an IPAM is constructed, with or without a provider whose file holds the caller's blocks
InitIPAM ==
  /\ heap = EmptyTree.heap
  /\ roots = EmptyTree.roots
  /\ cidr_map = EmptyTree.cidr_map
  /\ cidr_list \in SeqsUpTo(FileItems, MaxListLen)
  /\ ret = Returned
  /\ op = "init"
  /\ arg = <<>>
  /\ self_cidrs = <<>>
  /\ _cidrs_loaded = FALSE
  /\ cloud_provider \in {NoProvider, TestProvider(cidr_list)}
  /\ value = NoneObj

\* A session of the caller: loads and builds in any order, then one question.  A question
\* leaves the IPAM as it is, so whatever could follow it can be done in its place.
Queries == {"find_containing_cidr", "get_child_cidrs", "find_available_cidr"}

\* the caller loads the static file that holds its blocks
LoadStatic == op \notin Queries /\ load_static_cidrs(cidr_list)

LoadCloud == op \notin Queries /\ load_cloud_cidrs

BuildHierarchy == op \notin Queries /\ build_hierarchy

FindContainingAny ==
  /\ op \notin Queries
  /\ \E address \in Addresses : find_containing_cidr(address)

GetChildAny ==
  /\ op \notin Queries
  /\ \E parent_cidr \in Strings : get_child_cidrs(parent_cidr)

FindAvailableAny ==
  /\ op \notin Queries
  /\ \E parent_cidr \in Strings, prefix_length \in 0..Bits6 :
        find_available_cidr(parent_cidr, prefix_length)

NextIPAM ==
  \/ LoadStatic
  \/ LoadCloud
  \/ BuildHierarchy
  \/ FindContainingAny
  \/ GetChildAny
  \/ FindAvailableAny

\* the sessions of a caller of the IPAM
SpecIPAM == InitIPAM /\ [][NextIPAM]_vars

(* ------------------- the containment tests on two blocks ---------------- *)
\* every block of the two address spaces, in the spelling ip_network prints, and one
\* block in its netmask spelling
Blocks ==
  UNION {UNION {{Text(v, pfx, len, 0, "plain") : pfx \in 0..(2 ^ len - 1)} :
                  len \in 0..Bits(v)} : v \in {4, 6}}
  \cup {MaskB4}

\* a.supernet_of(b) on two networks of one version (it raises TypeError on two versions)
supernet_of(a, b) ==
  /\ a.network_address <= b.network_address
  /\ a.broadcast_address >= b.broadcast_address

\* CIDR.is_parent_of: the outcome and the value returned
CIDR_is_parent_of(self, other) ==
  IF cidr_of(self).version # cidr_of(other).version
  THEN [ret |-> Uncaught("TypeError"), value |-> NoneObj]
  ELSE [ret |-> Returned, value |-> supernet_of(cidr_of(self), cidr_of(other))]

\* CIDR.is_child_of: the outcome and the value returned
CIDR_is_child_of(self, other) ==
  IF cidr_of(self).version # cidr_of(other).version
  THEN [ret |-> Uncaught("TypeError"), value |-> NoneObj]
  ELSE [ret |-> Returned, value |-> is_child_of(self, other)]

\* a call on two blocks that changes neither
pair_unchanged ==
  UNCHANGED <<heap, roots, cidr_map, cidr_list, self_cidrs, _cidrs_loaded, cloud_provider>>

\* CIDRNode(a).is_parent_of(CIDRNode(b)) on the nodes of the caller's two block strings
NodeIsParentOf ==
  /\ op = "init"
  /\ value' = is_parent_of(CIDRNode(cidr_str_of(cidr_list[1]), NoneObj),
                           CIDRNode(cidr_str_of(cidr_list[2]), NoneObj))
  /\ ret' = Returned
  /\ op' = "CIDRNode.is_parent_of"
  /\ arg' = cidr_list
  /\ pair_unchanged

\* CIDR(a).is_parent_of(CIDR(b)) on the objects of the caller's two block strings
CIDRIsParentOf ==
  /\ op = "init"
  /\ \E r \in {CIDR_is_parent_of(CIDR(cidr_list[1], "network").obj,
                                 CIDR(cidr_list[2], "subnet").obj)} :
       /\ value' = r.value
       /\ ret' = r.ret
  /\ op' = "CIDR.is_parent_of"
  /\ arg' = cidr_list
  /\ pair_unchanged

\* CIDR(a).is_child_of(CIDR(b)) on the objects of the caller's two block strings
CIDRIsChildOf ==
  /\ op = "init"
  /\ \E r \in {CIDR_is_child_of(CIDR(cidr_list[1], "subnet").obj,
                                CIDR(cidr_list[2], "network").obj)} :
       /\ value' = r.value
       /\ ret' = r.ret
  /\ op' = "CIDR.is_child_of"
  /\ arg' = cidr_list
  /\ pair_unchanged

\* the caller holds any two blocks
InitPairs ==
  /\ heap = EmptyTree.heap
  /\ roots = EmptyTree.roots
  /\ cidr_map = EmptyTree.cidr_map
  /\ cidr_list \in {<<a, b>> : a \in Blocks, b \in Blocks}
  /\ ret = Returned
  /\ op = "init"
  /\ arg = <<>>
  /\ NoIPAM

NextPairs == NodeIsParentOf \/ CIDRIsParentOf \/ CIDRIsChildOf

\* one containment test on any two blocks
SpecPairs == InitPairs /\ [][NextPairs]_vars

(* --------------------------- CIDR.build_hierarchy ----------------------- *)
\* "for cidr in cidrs: tree.add_cidr(cidr)", from position i on
RECURSIVE add_all(_, _, _)
add_all(t, cidrs, i) ==
  IF i > Len(cidrs) THEN t
  ELSE add_all(add_cidr_call(t, cidrs[i]).tree, cidrs, i + 1)

\* what the second pass leaves in cidr._parent of an object made by CIDR(), whose _parent
\* is None: the object of the parent of the node indexed under the object's block string
_parent(t, cidr) ==
  LET k == cidr_str_of(cidr)
  IN  IF MapHas(t.cidr_map, k) /\ t.heap[MapGet(t.cidr_map, k)].parent # None
      THEN t.heap[t.heap[MapGet(t.cidr_map, k)].parent].cidr_obj
      ELSE NoneObj

\* the property CIDR.children of an object whose _tree is t
children(t, cidr) ==
  LET k == cidr_str_of(cidr)
  IN  IF ~MapHas(t.cidr_map, k) THEN <<>>
      ELSE [i \in 1..Len(t.heap[MapGet(t.cidr_map, k)].children) |->
              t.heap[t.heap[MapGet(t.cidr_map, k)].children[i]].cidr_obj]

\* CIDR.build_hierarchy on a list of objects: the tree every object refers to afterwards
\* and the _parent of every object, by position in the list
CIDR_build_hierarchy_call(cidrs) ==
  IF cidrs = <<>> THEN [tree |-> EmptyTree, _parent |-> <<>>]
  ELSE LET tree == add_all(EmptyTree, cidrs, 1)
       IN  [tree |-> tree, _parent |-> [i \in 1..Len(cidrs) |-> _parent(tree, cidrs[i])]]

\* the objects CIDR() makes of a list of valid block strings
objects_of(texts) == [i \in 1..Len(texts) |-> CIDR(texts[i], "network").obj]

\* CIDR.build_hierarchy(cidrs); the tree of the state is the _tree of the objects
CIDR_build_hierarchy(cidrs) ==
  /\ \E r \in {CIDR_build_hierarchy_call(cidrs)} :
       /\ heap' = r.tree.heap
       /\ roots' = r.tree.roots
       /\ cidr_map' = r.tree.cidr_map
       /\ value' = r._parent
  /\ ret' = Returned
  /\ op' = "CIDR.build_hierarchy"
  /\ arg' = cidrs
  /\ UNCHANGED <<cidr_list, self_cidrs, _cidrs_loaded, cloud_provider>>

\* the caller holds a list of valid block strings, in any spelling
InitCIDR ==
  /\ heap = EmptyTree.heap
  /\ roots = EmptyTree.roots
  /\ cidr_map = EmptyTree.cidr_map
  /\ cidr_list \in SeqsUpTo(ValidTexts \cup {MaskB4}, MaxListLen)
  /\ ret = Returned
  /\ op = "init"
  /\ arg = <<>>
  /\ NoIPAM

\* the caller makes an object of each of its block strings and builds their hierarchy
BuildHierarchyOfObjects == op = "init" /\ CIDR_build_hierarchy(objects_of(cidr_list))

SpecCIDR == InitCIDR /\ [][BuildHierarchyOfObjects]_vars

(* ------------------------ CIDRTree._find_parent ------------------------- *)
\* tree._find_parent(cidr): the node returned, and whether an error was printed
find_parent(cidr) ==
  /\ value' = _find_parent(TheTree, cidr)
  /\ ret' = IF ip_network(cidr).ok THEN Returned ELSE Reported
  /\ op' = "_find_parent"
  /\ arg' = <<cidr>>
  /\ UNCHANGED <<heap, roots, cidr_map, cidr_list, self_cidrs, _cidrs_loaded, cloud_provider>>

\* the caller asks for the parent of a block of its list, or of a string that is no block;
\* the question leaves the tree as it is and ends the session
FindParentAny ==
  /\ op # "_find_parent"
  /\ \E x \in {cidr_list[i] : i \in 1..Len(cidr_list)} \cup {Malformed} :
       find_parent(cidr_str_of(x))

NextFind == (op # "_find_parent" /\ Next) \/ FindParentAny

\* add_cidr and build_tree_from_list in any interleaving, then one _find_parent
SpecFind == InitCIDR /\ [][NextFind]_vars

(* --------------- the engine of src/ongoingverion/src/cidrtree.py --------- *)
\* ipaddress.ip_network(text, strict=False): host bits are masked off
ip_network_not_strict(s) ==
  LET w    == Bits(s.ver)
      good == s.form # "bad" /\ s.len <= w
      size == IF good THEN 2 ^ (w - s.len) ELSE 1
  IN  [ok                |-> good,
       version           |-> s.ver,
       network_address   |-> s.addr - (s.addr % size),
       broadcast_address |-> s.addr - (s.addr % size) + size - 1,
       prefixlen         |-> s.len]

\* CIDRNode.net
net(node) == ip_network_not_strict(node.cidr)

\* cidr = None of the root node
NoCidr == [ver |-> 0, addr |-> 0, len |-> 0, form |-> "none"]

\* the tree as a value: node 1 is rootCidrNode, made by CIDRTree.__init__
rootCidrNode == 1

AltEmptyTree ==
  [n \in {rootCidrNode} |-> [cidr |-> NoCidr, parent |-> None, chickenList |-> <<>>]]

\* nodes.sort(key=lambda n: (n.net.version, n.net.prefixlen)); list.sort is stable
RECURSIVE nodes_sort(_)
nodes_sort(nodes) ==
  IF nodes = <<>> THEN <<>>
  ELSE LET s == nodes_sort(SubSeq(nodes, 1, Len(nodes) - 1))
           e == nodes[Len(nodes)]
           less(a, b) == \/ net(a).version < net(b).version
                         \/ /\ net(a).version = net(b).version
                            /\ net(a).prefixlen < net(b).prefixlen
           k == Cardinality({i \in 1..Len(s) : \A j \in 1..i : ~less(e, s[j])})
       IN  SubSeq(s, 1, k) \o <<e>> \o SubSeq(s, k + 1, Len(s))

\* mutant of potential_parent: nodes[:idx] is scanned from the front
potential_parent_from_front(nodes, idx) ==
  LET found == {j \in 1..(idx - 1) :
                  /\ net(nodes[j]).version = net(nodes[idx]).version
                  /\ supernet_of(net(nodes[j]), net(nodes[idx]))}
  IN  IF found = {} THEN 0 ELSE CHOOSE j \in found : \A h \in found : j <= h

\* the position of the first node of reversed(nodes[:idx]) that is of the version of
\* nodes[idx] and a supernet of it; 0 if the scan ends without one
potential_parent(nodes, idx) ==
  LET found == {j \in 1..(idx - 1) :
                  /\ net(nodes[j]).version = net(nodes[idx]).version
                  /\ supernet_of(net(nodes[j]), net(nodes[idx]))}
  IN  IF found = {} THEN 0 ELSE CHOOSE j \in found : \A h \in found : j >= h

\* the loop "Build tree" of formTreeFromCidrList, from position idx on; the node at
\* position idx of the sorted list is node idx + 1
RECURSIVE form_loop(_, _, _)
form_loop(h, nodes, idx) ==
  IF idx > Len(nodes) THEN h
  ELSE LET found  == potential_parent(nodes, idx)
           parent == IF found = 0 THEN rootCidrNode ELSE found + 1
           node   == [cidr |-> nodes[idx].cidr, parent |-> parent, chickenList |-> <<>>]
       IN  form_loop([n \in DOMAIN h \cup {idx + 1} |->
                        IF n = idx + 1 THEN node
                        ELSE IF n = parent THEN [h[n] EXCEPT !.chickenList = Append(@, idx + 1)]
                        ELSE h[n]],
                     nodes, idx + 1)

\* CIDRTree.formTreeFromCidrList: the nodes reachable from the tree afterwards, and the
\* outcome; n.net raises ValueError in the sort, after the root was cleared
formTreeFromCidrList_call(cidr_list_) ==
  LET nodes == [i \in 1..Len(cidr_list_) |-> [cidr |-> cidr_str_of(cidr_list_[i])]]
  IN  IF \E i \in 1..Len(nodes) : ~net(nodes[i]).ok
      THEN [heap |-> AltEmptyTree, ret |-> Uncaught("ValueError")]
      ELSE [heap |-> form_loop(AltEmptyTree, nodes_sort(nodes), 1), ret |-> Returned]

\* tree.formTreeFromCidrList(cidr_list)
formTreeFromCidrList(cidr_list_) ==
  /\ \E r \in {formTreeFromCidrList_call(cidr_list_)} :
       /\ heap' = r.heap
       /\ ret' = r.ret
  /\ op' = "formTreeFromCidrList"
  /\ arg' = cidr_list_
  /\ UNCHANGED <<roots, cidr_map, cidr_list, self_cidrs, _cidrs_loaded, cloud_provider, value>>

\* the block strings handed to this engine: host bits are accepted
AltItems == ValidTexts \cup {MaskB4, HostBitsB4, Malformed}

\* a tree of this engine is constructed; the caller holds any list of block strings
InitAlt ==
  /\ heap = AltEmptyTree
  /\ roots = <<>>
  /\ cidr_map = <<>>
  /\ cidr_list \in SeqsUpTo(AltItems, MaxListLen)
  /\ ret = Returned
  /\ op = "init"
  /\ arg = <<>>
  /\ NoIPAM

\* the caller forms the tree from its list
FormTreeAny == formTreeFromCidrList(cidr_list)

SpecAlt == InitAlt /\ [][FormTreeAny]_vars

(* ------------- build_tree_from_list, one block at a time ---------------- *)
\* The call is followed through its loop: value holds the sorted entries and how many of
\* them have been processed.
\* build_tree_from_list(cidrs) up to the loop: the early return, the errors raised before
\* anything is cleared, or the sort and the clearing
build_begin(cidrs) ==
  /\ IF cidrs = <<>> \/ build_tree_from_list_call(TheTree, cidrs).ret.exc # "none"
     THEN /\ op' = "build_tree_from_list"
          /\ ret' = build_tree_from_list_call(TheTree, cidrs).ret
          /\ UNCHANGED <<heap, roots, cidr_map, value>>
     ELSE /\ op' = "build_begin"
          /\ ret' = Returned
          /\ heap' = EmptyTree.heap
          /\ roots' = EmptyTree.roots
          /\ cidr_map' = EmptyTree.cidr_map
          /\ value' = [entries |-> sorted_entries(cidr_entries(cidrs)), i |-> 0]
  /\ arg' = cidrs
  /\ UNCHANGED <<cidr_list, self_cidrs, _cidrs_loaded, cloud_provider>>

\* one turn of the loop "Add CIDRs in order"
build_step ==
  /\ op \in {"build_begin", "build_step"}
  /\ value.i < Len(value.entries)
  /\ \E t \in {build_loop(TheTree, {}, <<value.entries[value.i + 1]>>, 1)} :
       /\ heap' = t.heap
       /\ roots' = t.roots
       /\ cidr_map' = t.cidr_map
  /\ value' = [value EXCEPT !.i = @ + 1]
  /\ op' = "build_step"
  /\ UNCHANGED <<ret, arg, cidr_list, self_cidrs, _cidrs_loaded, cloud_provider>>

\* the loop is over: the call returns
build_end ==
  /\ op \in {"build_begin", "build_step"}
  /\ value.i = Len(value.entries)
  /\ op' = "build_tree_from_list"
  /\ UNCHANGED <<heap, roots, cidr_map, ret, arg, value,
                 cidr_list, self_cidrs, _cidrs_loaded, cloud_provider>>

\* the caller builds from its list, on a tree that is new
BuildBegin == op = "init" /\ build_begin(cidr_list)

NextBuild == BuildBegin \/ build_step \/ build_end

SpecBuild == Init /\ [][NextBuild]_vars

(* ------------------------- vocabulary of the claims -------------------- *)
\* contains(A, B) of the specification, on the texts of two blocks
Contains(a, b) ==
  LET x == ip_network(a)
      y == ip_network(b)
  IN  /\ x.version = y.version
      /\ x.network_address <= y.network_address
      /\ x.broadcast_address >= y.broadcast_address
      /\ x.prefixlen < y.prefixlen

SameBlock(a, b) ==
  LET x == ip_network(a)
      y == ip_network(b)
  IN  /\ x.version = y.version
      /\ x.network_address = y.network_address
      /\ x.prefixlen = y.prefixlen

Valid(item) == ip_network(cidr_str_of(item)).ok

\* a list of valid, pairwise different blocks
DistinctValid(L) ==
  /\ \A i \in 1..Len(L) : Valid(L[i])
  /\ \A i, j \in 1..Len(L) : i # j => ~SameBlock(cidr_str_of(L[i]), cidr_str_of(L[j]))

Texts(L) == {cidr_str_of(L[i]) : i \in 1..Len(L)}

PrefixLen(k) == ip_network(k).prefixlen

\* the inserted blocks that strictly contain block k
Containers(t, k) == {c \in MapKeys(t.cidr_map) : Contains(c, k)}

\* forest invariant: the parent of every node is the most specific inserted block that
\* strictly contains it, and a node that no inserted block contains is a root without parent
ForestInvariant(t) ==
  \A i \in 1..Len(t.cidr_map) :
    LET n  == t.cidr_map[i].node
        up == Containers(t, t.cidr_map[i].key)
    IN  IF up = {}
        THEN t.heap[n].parent = None /\ InSeq(t.roots, n)
        ELSE /\ t.heap[n].parent # None
             /\ t.heap[n].parent \in DOMAIN t.heap
             /\ t.heap[t.heap[n].parent].cidr \in up
             /\ \A c \in up : PrefixLen(c) <= PrefixLen(t.heap[t.heap[n].parent].cidr)
             /\ ~InSeq(t.roots, n)

\* "no parent", in the shape of a text
NoParent == [ver |-> 0, addr |-> 0, len |-> 0, form |-> "none"]

\* which text has which parent text
ParentAssignment(t) ==
  {[cidr   |-> t.cidr_map[i].key,
    parent |-> IF t.heap[t.cidr_map[i].node].parent = None THEN NoParent
               ELSE t.heap[t.heap[t.cidr_map[i].node].parent].cidr] : i \in 1..Len(t.cidr_map)}

SeqSet(s) == {s[i] : i \in 1..Len(s)}
NoDup(s) == \A i, j \in 1..Len(s) : i # j => s[i] # s[j]

RootSet(t) == {t.heap[t.roots[i]].cidr : i \in 1..Len(t.roots)}

\* links are two-sided: children lists and the root list say what the parent fields say
TwoSided(t) ==
  /\ \A n \in DOMAIN t.heap :
       /\ NoDup(t.heap[n].children)
       /\ SeqSet(t.heap[n].children) = {m \in DOMAIN t.heap : t.heap[m].parent = n}
  /\ NoDup(t.roots)
  /\ SeqSet(t.roots) = {m \in DOMAIN t.heap : t.heap[m].parent = None}

\* the nodes met when walking down from the nodes ids, at most fuel levels deep
RECURSIVE Walk(_, _, _)
Walk(t, ids, fuel) ==
  IF ids = <<>> \/ fuel = 0 THEN <<>>
  ELSE <<Head(ids)>>
       \o (IF Head(ids) \in DOMAIN t.heap
           THEN Walk(t, t.heap[Head(ids)].children, fuel - 1) ELSE <<>>)
       \o Walk(t, Tail(ids), fuel)

Count(s, x) == Cardinality({i \in 1..Len(s) : s[i] = x})

\* the index and the forest hold the same nodes, each once
IndexConsistent(t) ==
  LET walk == Walk(t, t.roots, Len(t.cidr_map) + 1)
  IN  /\ \A i \in 1..Len(t.cidr_map) : Count(walk, t.cidr_map[i].node) = 1
      /\ \A k \in 1..Len(walk) :
           /\ Cardinality({i \in 1..Len(t.cidr_map) : t.cidr_map[i].node = walk[k]}) = 1
           /\ \A i \in 1..Len(t.cidr_map) :
                t.cidr_map[i].node = walk[k] => t.cidr_map[i].key = t.heap[walk[k]].cidr
      /\ NoDup([i \in 1..Len(t.cidr_map) |-> t.cidr_map[i].key])

\* the lists that hold the items of L in another order
Perms(L) ==
  {[i \in 1..Len(L) |-> L[f[i]]] :
     f \in {g \in [1..Len(L) -> 1..Len(L)] : \A i, j \in 1..Len(L) : i # j => g[i] # g[j]}}

(* -------------------------------- claims ------------------------------- *)
\* C1: after every add_cidr call of a sequence of add_cidr calls on valid distinct blocks,
\* in any order, the forest invariant holds.
C1_ForestInvariantAfterAdd ==
  (op = "add_cidr" /\ DistinctValid(cidr_list)) => ForestInvariant(TheTree)

C3_AddsAgreeWithBuild ==
  (/\ op = "add_cidr"
   /\ DistinctValid(cidr_list)
   /\ MapKeys(cidr_map) = Texts(cidr_list)
   /\ build_tree_from_list_call(EmptyTree, cidr_list).ret.exc = "none")
  => /\ ParentAssignment(TheTree)
          = ParentAssignment(build_tree_from_list_call(EmptyTree, cidr_list).tree)
     /\ RootSet(TheTree) = RootSet(build_tree_from_list_call(EmptyTree, cidr_list).tree)

\* C4: add_cidr(B) moves under B exactly the existing nodes that B strictly contains and
\* whose parent is absent or less specific than B; every other existing node keeps its
\* parent and stays in that parent's child list.
C4_ReparentsExactlyCloser ==
  [][(/\ op' = "add_cidr"
      /\ DistinctValid(cidr_list)
      /\ Len(cidr_map') = Len(cidr_map) + 1)
     => LET B == cidr_map'[Len(cidr_map')].key
            n == cidr_map'[Len(cidr_map')].node
        IN  \A X \in DOMAIN heap :
              IF /\ Contains(B, heap[X].cidr)
                 /\ \/ heap[X].parent = None
                    \/ PrefixLen(heap[heap[X].parent].cidr) < PrefixLen(B)
              THEN /\ heap'[X].parent = n
                   /\ InSeq(heap'[n].children, X)
                   /\ ~InSeq(roots', X)
                   /\ heap[X].parent # None => ~InSeq(heap'[heap[X].parent].children, X)
              ELSE /\ heap'[X].parent = heap[X].parent
                   /\ heap[X].parent # None => InSeq(heap'[heap[X].parent].children, X)
                   /\ ~InSeq(heap'[n].children, X)]_vars

\* C5: after every add_cidr and every build_tree_from_list the links are two-sided: the
\* children of a node are, without repetition, the nodes whose parent it is, and the roots
\* are, without repetition, the nodes without parent.
C5_LinksTwoSided ==
  op \in {"add_cidr", "build_tree_from_list"} => TwoSided(TheTree)

\* C5 is met after an add_cidr that took a node away from a parent it had
C5_Witness ==
  /\ op = "add_cidr"
  /\ \E i, j, k \in 1..Len(cidr_map) :
       /\ i < j /\ j < k
       /\ Contains(cidr_map[i].key, cidr_map[k].key)
       /\ Contains(cidr_map[k].key, cidr_map[j].key)
       /\ heap[cidr_map[j].node].parent = cidr_map[k].node
       /\ heap[cidr_map[k].node].parent = cidr_map[i].node

\* C6: after every add_cidr and every build_tree_from_list every node of cidr_map is met
\* exactly once walking down from the roots, and every node so met is the value of exactly
\* one key, its own cidr string.
C6_IndexConsistent ==
  op \in {"add_cidr", "build_tree_from_list"} => IndexConsistent(TheTree)

\* C6 is met after an add_cidr that put two former roots under the new node
C6_Witness ==
  /\ op = "add_cidr"
  /\ cidr_map # <<>>
  /\ Len(heap[cidr_map[Len(cidr_map)].node].children) = 2
  /\ heap[cidr_map[Len(cidr_map)].node].parent = None

\* C7: build_tree_from_list on any permutation of a list of distinct valid blocks gives
\* every block the same parent, and the same set of roots.
C7_OrderIndependent ==
  (/\ op = "build_tree_from_list"
   /\ ret.exc = "none"
   /\ DistinctValid(arg))
  => \A P \in Perms(arg) :
       /\ build_tree_from_list_call(TheTree, P).ret.exc = "none"
       /\ ParentAssignment(build_tree_from_list_call(TheTree, P).tree)
            = ParentAssignment(TheTree)
       /\ RootSet(build_tree_from_list_call(TheTree, P).tree) = RootSet(TheTree)

\* C7 is met on three distinct blocks of which the last contains the first, one a sibling
C7_Witness ==
  /\ op = "build_tree_from_list"
  /\ ret.exc = "none"
  /\ DistinctValid(arg)
  /\ Len(arg) = 3
  /\ Contains(cidr_str_of(arg[3]), cidr_str_of(arg[1]))
  /\ ~Contains(cidr_str_of(arg[2]), cidr_str_of(arg[1]))
  /\ Len(roots) = 1

\* C8: when build_tree_from_list returns on any list L, whatever the tree held before, the
\* keys of cidr_map are exactly the block strings of L and every root is a node created by
\* this call.
C8_BuildReplaces ==
  [][(op' = "build_tree_from_list" /\ ret'.exc = "none")
     => /\ MapKeys(cidr_map') = Texts(arg')
        /\ \A i \in 1..Len(roots') : roots'[i] \notin DOMAIN heap]_vars

\* C9: build_tree_from_list on a list with a malformed block string returns normally and
\* leaves the forest that the list without the malformed items gives.
C9_BuildSkipsMalformed ==
  (op = "build_tree_from_list" /\ \E i \in 1..Len(arg) : ~Valid(arg[i]))
  => /\ ret.exc = "none"
     /\ ParentAssignment(TheTree)
          = ParentAssignment(build_tree_from_list_call(EmptyTree, SelectSeq(arg, Valid)).tree)
     /\ RootSet(TheTree)
          = RootSet(build_tree_from_list_call(EmptyTree, SelectSeq(arg, Valid)).tree)

\* C10: add_cidr with a block string that is already in the index changes nothing: roots,
\* cidr_map and every node (parent, children, attached object) stay as they are.
C10_AddIdempotent ==
  [][(op' = "add_cidr" /\ MapHas(cidr_map, cidr_str_of(arg'[1])))
     => heap' = heap /\ roots' = roots /\ cidr_map' = cidr_map]_vars

\* C10 is met after add_cidr of a CIDR object whose block string was indexed before, by a
\* node that holds another object or none
C10_Witness ==
  /\ op = "add_cidr"
  /\ hasattr_cidr(arg[1])
  /\ MapHas(cidr_map, cidr_str_of(arg[1]))
  /\ heap[MapGet(cidr_map, cidr_str_of(arg[1]))].cidr_obj # arg[1]

\* C11: build_tree_from_list drops duplicates: for a block string that occurs several times
\* in the list, cidr_map holds one node, that node is met once in the forest, and the object
\* attached to it is the one of the first occurrence in the list.
C11_BuildDropsDuplicates ==
  (op = "build_tree_from_list" /\ ret.exc = "none")
  => \A i, j \in 1..Len(arg) :
       (/\ i < j
        /\ cidr_str_of(arg[i]) = cidr_str_of(arg[j])
        /\ \A h \in 1..(i - 1) : cidr_str_of(arg[h]) # cidr_str_of(arg[i]))
       => LET k == cidr_str_of(arg[i])
          IN  /\ Cardinality({x \in 1..Len(cidr_map) : cidr_map[x].key = k}) = 1
              /\ Cardinality({n \in DOMAIN heap : heap[n].cidr = k}) = 1
              /\ Count(Walk(TheTree, roots, Len(cidr_map) + 1), MapGet(cidr_map, k)) = 1
              /\ heap[MapGet(cidr_map, k)].cidr_obj = cidr_obj_of(arg[i])

\* C11 is met on a list that holds one block twice, with different objects attached
C11_Witness ==
  /\ op = "build_tree_from_list"
  /\ ret.exc = "none"
  /\ \E i, j \in 1..Len(arg) :
       /\ i < j
       /\ cidr_str_of(arg[i]) = cidr_str_of(arg[j])
       /\ hasattr_cidr(arg[i])
       /\ cidr_obj_of(arg[i]) # cidr_obj_of(arg[j])
       /\ heap[MapGet(cidr_map, cidr_str_of(arg[i]))].cidr_obj = arg[i]

\* a valid block string written with host bits set, and the network form of it
HasHostBits(s) ==
  /\ s.form # "bad"
  /\ s.len <= Bits(s.ver)
  /\ s.addr % (2 ^ (Bits(s.ver) - s.len)) # 0

NetworkForm(s) == [s EXCEPT !.addr = s.addr - (s.addr % (2 ^ (Bits(s.ver) - s.len)))]

\* C12: host bits are masked on construction: after add_cidr or build_tree_from_list was
\* handed a block string with host bits set, the call has returned normally and the block
\* is in the index as one node keyed by its network form.
C12_HostBitsMasked ==
  (/\ op \in {"add_cidr", "build_tree_from_list"}
   /\ \A i \in 1..Len(arg) : Valid(arg[i]) \/ HasHostBits(arg[i]))
  => \A i \in 1..Len(arg) :
       HasHostBits(arg[i])
       => /\ ret = Returned
          /\ Cardinality({x \in 1..Len(cidr_map) :
                            cidr_map[x].key = cidr_str_of(NetworkForm(arg[i]))}) = 1
          /\ ~MapHas(cidr_map, cidr_str_of(arg[i]))

(* --------------------- vocabulary of the claims on the IPAM ------------- *)
\* the block strings loaded into the IPAM
LoadedKeys == {self_cidrs[i].key : i \in 1..Len(self_cidrs)}

\* the address lies in the range of block k
AddressInBlock(a, k) ==
  /\ a.form # "bad"
  /\ a.ver = ip_network(k).version
  /\ ip_network(k).network_address <= a.addr
  /\ a.addr <= ip_network(k).broadcast_address

\* two blocks share an address
Overlap(a, b) ==
  /\ ip_network(a).version = ip_network(b).version
  /\ ip_network(a).network_address <= ip_network(b).broadcast_address
  /\ ip_network(b).network_address <= ip_network(a).broadcast_address

\* the loaded blocks strictly inside block k
Inside(k) == {c \in LoadedKeys : Contains(k, c)}

\* the immediate children of block k among the loaded blocks
DirectChildren(k) == {c \in Inside(k) : ~\E m \in Inside(k) : Contains(m, c)}

\* the sub-blocks of prefix length p that partition block k
SubBlocks(k, p) ==
  {[ver |-> k.ver, addr |-> a, len |-> p, form |-> "plain"] :
     a \in {x \in ip_network(k).network_address..ip_network(k).broadcast_address :
              x % (2 ^ (Bits(k.ver) - p)) = 0}}

\* C13: find_containing_cidr(address) returns, among all loaded blocks whose range contains
\* the address, the one with the greatest prefix length, and None if no loaded block
\* contains it, in every state of the IPAM, build_hierarchy called or not.
C13_LongestPrefixMatch ==
  op = "find_containing_cidr"
  => LET containing == {k \in LoadedKeys : AddressInBlock(arg[1], k)}
     IN  IF containing = {} THEN value = NoneObj
         ELSE /\ value # NoneObj
              /\ cidr_str_of(value) \in containing
              /\ \A k \in containing : PrefixLen(k) <= PrefixLen(cidr_str_of(value))

\* C14: find_available_cidr(parent, p) with p greater than the prefix length of the loaded
\* parent returns the lowest-address sub-block of prefix length p inside the parent that
\* is not a direct child of the parent, and None exactly when every such sub-block is one.
C14_FirstFreeSubBlock ==
  (/\ op = "find_available_cidr"
   /\ arg[1] \in LoadedKeys
   /\ arg[2] > PrefixLen(arg[1])
   /\ arg[2] <= Bits(arg[1].ver))
  => LET free == SubBlocks(arg[1], arg[2]) \ DirectChildren(arg[1])
     IN  /\ ret.exc = "none"
         /\ IF free = {} THEN value = NoneObj
            ELSE /\ value # NoneObj
                 /\ cidr_str_of(value) \in free
                 /\ \A f \in free : value.addr <= f.addr

\* C15: find_available_cidr(parent, p) returns no block when p is less than or equal to
\* the prefix length of the parent: it fails or returns None.
C15_NoBlockForShorterPrefix ==
  (/\ op = "find_available_cidr"
   /\ arg[1] \in LoadedKeys
   /\ arg[2] <= PrefixLen(arg[1]))
  => value = NoneObj

\* C16: a block that find_available_cidr returns shares no address with any loaded block
\* that lies strictly inside the parent (stated for the requests of a prefix length greater
\* than the parent's; C15 is about the others).
C16_AvailableIsUnallocated ==
  (/\ op = "find_available_cidr"
   /\ arg[1] \in LoadedKeys
   /\ arg[2] > PrefixLen(arg[1])
   /\ value # NoneObj)
  => \A k \in Inside(arg[1]) : ~Overlap(cidr_str_of(value), k)

\* C17: get_child_cidrs(parent) returns exactly the immediate children of the loaded
\* parent: the loaded blocks strictly inside it that are inside no other loaded block
\* strictly inside it; never the parent itself nor a transitive descendant.
C17_ExactlyDirectChildren ==
  (op = "get_child_cidrs" /\ arg[1] \in LoadedKeys)
  => /\ ret.exc = "none"
     /\ {cidr_str_of(value[i]) : i \in 1..Len(value)} = DirectChildren(arg[1])
     /\ \A i, j \in 1..Len(value) : i # j => value[i] # value[j]

C19_AbsentKeyHarmless ==
  [][(op' \in {"get_child_cidrs", "find_available_cidr"} /\ arg'[1] \notin LoadedKeys)
     => /\ ret' = Returned
        /\ op' = "get_child_cidrs" => value' = <<>>
        /\ op' = "find_available_cidr" => value' = NoneObj
        /\ UNCHANGED <<self_cidrs, _cidrs_loaded, heap, roots, cidr_map>>]_vars

\* C19 is met when find_available_cidr is asked for a key that is not loaded, of an IPAM
\* that holds blocks and has built its tree
C19_Witness ==
  /\ op = "find_available_cidr"
  /\ arg[1] \notin LoadedKeys
  /\ self_cidrs # <<>>
  /\ cidr_map # <<>>
  /\ ret = Returned
  /\ value = NoneObj

\* C20: blocks of different IP versions are never related in the forest: after every
\* add_cidr and every build_tree_from_list no node has a parent of the other version, and
\* every node that no block of its own version strictly contains is a root without parent.
C20_VersionsUnrelated ==
  op \in {"add_cidr", "build_tree_from_list"}
  => /\ \A n \in DOMAIN heap :
          heap[n].parent # None
          => ip_network(heap[heap[n].parent].cidr).version = ip_network(heap[n].cidr).version
     /\ \A i \in 1..Len(cidr_map) :
          Containers(TheTree, cidr_map[i].key) = {}
          => /\ heap[cidr_map[i].node].parent = None
             /\ InSeq(roots, cidr_map[i].node)

\* C20 is met after add_cidr of an IPv4 block whose numbers cover those of an IPv6 block
\* that was in the forest before: both are roots
C20_Witness ==
  /\ op = "add_cidr"
  /\ \E i, j \in 1..Len(cidr_map) :
       /\ i < j
       /\ cidr_map[i].key.ver = 6
       /\ cidr_map[j].key.ver = 4
       /\ ip_network(cidr_map[j].key).network_address
            <= ip_network(cidr_map[i].key).network_address
       /\ ip_network(cidr_map[j].key).broadcast_address
            >= ip_network(cidr_map[i].key).broadcast_address
       /\ PrefixLen(cidr_map[j].key) < PrefixLen(cidr_map[i].key)
       /\ InSeq(roots, cidr_map[i].node)
       /\ InSeq(roots, cidr_map[j].node)

\* C21: CIDRNode.is_parent_of is a strict containment: for all blocks A and B,
\* is_parent_of(A, A) is false, is_parent_of(A, B) implies not is_parent_of(B, A), and
\* is_parent_of(A, B) implies that A and B have the same version and that the prefix
\* length of A is less than that of B.
C21_StrictContainment ==
  op = "CIDRNode.is_parent_of"
  => LET A == CIDRNode(cidr_str_of(arg[1]), NoneObj)
         B == CIDRNode(cidr_str_of(arg[2]), NoneObj)
     IN  /\ arg[1] = arg[2] => value = FALSE
         /\ value = TRUE
            => /\ ~is_parent_of(B, A)
               /\ ip_network(A.cidr).version = ip_network(B.cidr).version
               /\ ip_network(A.cidr).prefixlen < ip_network(B.cidr).prefixlen

\* C21 is met when a block is tested against a block inside it, and against itself
C21_Witness ==
  /\ op = "CIDRNode.is_parent_of"
  /\ \/ arg = <<B4, C4>> /\ value = TRUE
     \/ arg = <<B4, B4>> /\ value = FALSE

\* C22: CIDR.is_parent_of(A, B) and CIDR.is_child_of(B, A) agree with the containment
\* predicate for every pair of blocks: they return true iff the versions match, the range
\* of A covers the range of B and the prefix length of A is strictly less than that of B;
\* for an equal block and for a block of the other IP version they return false.
C22_AgreesWithContains ==
  /\ op = "CIDR.is_parent_of"
     => ret.exc = "none" /\ value = Contains(cidr_str_of(arg[1]), cidr_str_of(arg[2]))
  /\ op = "CIDR.is_child_of"
     => ret.exc = "none" /\ value = Contains(cidr_str_of(arg[2]), cidr_str_of(arg[1]))

\* C23: after CIDR.build_hierarchy(L) on any list L of distinct CIDR objects in any order,
\* the parent of each object is the most specific other object of L that strictly contains
\* it (None if there is none), and the children of each object are exactly the objects
\* whose parent it is.
C23_HierarchyOfObjects ==
  (op = "CIDR.build_hierarchy" /\ DistinctValid(arg))
  => \A i \in 1..Len(arg) :
       LET up == {j \in 1..Len(arg) : Contains(cidr_str_of(arg[j]), cidr_str_of(arg[i]))}
       IN  /\ IF up = {} THEN value[i] = NoneObj
              ELSE \E j \in up :
                     /\ value[i] = arg[j]
                     /\ \A h \in up : PrefixLen(cidr_str_of(arg[h])) <= PrefixLen(cidr_str_of(arg[j]))
           /\ SeqSet(children(TheTree, arg[i])) = {arg[j] : j \in {h \in 1..Len(arg) : value[h] = arg[i]}}
           /\ NoDup(children(TheTree, arg[i]))

\* C24: CIDRTree._find_parent(block) returns the node of the inserted block, other than the
\* block itself, of the same IP version that strictly contains the block and has the
\* greatest prefix length, and returns None if no inserted block strictly contains it.
C24_FindParentMostSpecific ==
  op = "_find_parent"
  => LET up == Containers(TheTree, arg[1])
     IN  IF up = {} THEN value = None
         ELSE /\ value \in DOMAIN heap
              /\ heap[value].cidr \in up
              /\ heap[value].cidr # arg[1]
              /\ MapGet(cidr_map, heap[value].cidr) = value
              /\ ip_network(heap[value].cidr).version = ip_network(arg[1]).version
              /\ \A c \in up : PrefixLen(c) <= PrefixLen(heap[value].cidr)

\* C24 is met when the block asked for has two containers in the index, the outer one
\* indexed first, and is indexed itself
C24_Witness ==
  /\ op = "_find_parent"
  /\ MapHas(cidr_map, arg[1])
  /\ \E i, j \in 1..Len(cidr_map) :
       /\ i < j
       /\ Contains(cidr_map[i].key, cidr_map[j].key)
       /\ Contains(cidr_map[j].key, arg[1])
       /\ value = cidr_map[j].node

\* C25: no rejection is silent: when add_cidr or build_tree_from_list rejects a malformed
\* item, the caller receives a report of it, a raised error or a returned value that
\* differs from what a successful call returns (both calls return None on success).
C25_RejectionReported ==
  (/\ op \in {"add_cidr", "build_tree_from_list"}
   /\ \E i \in 1..Len(arg) : ~Valid(arg[i]))
  => ret.exc # "none"

\* C26: nodes are never destroyed by insertion: across any sequence of add_cidr calls the
\* key set of cidr_map only grows, and each key keeps mapping to the same node with the
\* same block string and the same attached object; only the parent and children links of
\* existing nodes change.
C26_NodesNeverDestroyed ==
  [][op' = "add_cidr"
     => \A k \in MapKeys(cidr_map) :
          /\ MapHas(cidr_map', k)
          /\ MapGet(cidr_map', k) = MapGet(cidr_map, k)
          /\ MapGet(cidr_map, k) \in DOMAIN heap'
          /\ heap'[MapGet(cidr_map, k)].cidr = heap[MapGet(cidr_map, k)].cidr
          /\ heap'[MapGet(cidr_map, k)].cidr_obj = heap[MapGet(cidr_map, k)].cidr_obj]_vars

\* C26 is met after an add_cidr that moved a node with an attached object, and another
\* node, under the new node
C26_Witness ==
  /\ op = "add_cidr"
  /\ Len(cidr_map) = 3
  /\ heap[cidr_map[1].node].cidr_obj # NoneObj
  /\ heap[cidr_map[1].node].parent = cidr_map[3].node
  /\ heap[cidr_map[2].node].parent = cidr_map[3].node

(* ----------------- vocabulary of the claims on the other engine --------- *)
\* contains(A, B) of the specification on two block strings as this engine reads them
ContainsNotStrict(a, b) ==
  LET x == ip_network_not_strict(a)
      y == ip_network_not_strict(b)
  IN  /\ x.version = y.version
      /\ x.network_address <= y.network_address
      /\ x.broadcast_address >= y.broadcast_address
      /\ x.prefixlen < y.prefixlen

SameBlockNotStrict(a, b) ==
  LET x == ip_network_not_strict(a)
      y == ip_network_not_strict(b)
  IN  /\ x.version = y.version
      /\ x.network_address = y.network_address
      /\ x.prefixlen = y.prefixlen

\* the nodes of the tree other than rootCidrNode
AltNodes == DOMAIN heap \ {rootCidrNode}

\* C27: formTreeFromCidrList(L), for any list L of distinct valid blocks in any order,
\* makes one node per block and attaches each under the most specific block of L of the
\* same IP version that strictly contains it, and under the null root when none does.
C27_FormTreeMostSpecific ==
  (/\ op = "formTreeFromCidrList"
   /\ \A i \in 1..Len(arg) : ip_network_not_strict(cidr_str_of(arg[i])).ok
   /\ \A i, j \in 1..Len(arg) :
        i # j => ~SameBlockNotStrict(cidr_str_of(arg[i]), cidr_str_of(arg[j])))
  => /\ ret = Returned
     /\ {heap[n].cidr : n \in AltNodes} = Texts(arg)
     /\ Cardinality(AltNodes) = Len(arg)
     /\ \A n \in AltNodes :
          LET up == {m \in AltNodes : ContainsNotStrict(heap[m].cidr, heap[n].cidr)}
          IN  /\ IF up = {} THEN heap[n].parent = rootCidrNode
                 ELSE /\ heap[n].parent \in up
                      /\ \A m \in up : heap[m].cidr.len <= heap[heap[n].parent].cidr.len
              /\ Count(heap[heap[n].parent].chickenList, n) = 1
              /\ \A m \in DOMAIN heap : m # heap[n].parent => ~InSeq(heap[m].chickenList, n)

\* C27 is met on three blocks nested in each other, handed over innermost first, the
\* middle one written with host bits
C27_Witness ==
  /\ op = "formTreeFromCidrList"
  /\ arg = <<C4, HostBitsB4, A4>>
  /\ \E n, m \in AltNodes :
       /\ heap[n].cidr = cidr_str_of(C4)
       /\ heap[m].cidr = cidr_str_of(HostBitsB4)
       /\ heap[n].parent = m
       /\ heap[heap[m].parent].parent = rootCidrNode

\* C29: the other engine drops duplicates: after formTreeFromCidrList(L) on a list in which
\* a block occurs more than once, that block is exactly one node of the tree and is never
\* attached as a child of its own duplicate.
C29_FormTreeDropsDuplicates ==
  (op = "formTreeFromCidrList" /\ ret = Returned)
  => /\ \A i \in 1..Len(arg) :
          Cardinality({n \in AltNodes : heap[n].cidr = cidr_str_of(arg[i])}) = 1
     /\ \A n \in AltNodes :
          heap[n].parent # rootCidrNode => heap[heap[n].parent].cidr # heap[n].cidr

\* C28: the index is keyed by the canonical block string: two different spellings of the
\* same block, passed as strings to add_cidr or build_tree_from_list, yield a single node,
\* so no two keys of cidr_map ever spell the same block.
C28_CanonicalKeys ==
  op \in {"add_cidr", "build_tree_from_list"}
  => \A i, j \in 1..Len(cidr_map) :
       i # j => ~SameBlock(cidr_map[i].key, cidr_map[j].key)

\* C30: during build_tree_from_list the blocks are processed in ascending (prefix length,
\* network address) order, so at the moment a block is processed every block of the input
\* that strictly contains it is already in cidr_map, and no node's parent is ever changed
\* after the node is first attached.
C30_AncestorsFirst ==
  [][op' = "build_step"
     => LET e    == value'.entries[value'.i]
            this == ip_network(e.cidr_str)
        IN  /\ value'.i > 1
               => LET prev == ip_network(value'.entries[value'.i - 1].cidr_str)
                  IN  \/ prev.prefixlen < this.prefixlen
                      \/ /\ prev.prefixlen = this.prefixlen
                         /\ prev.network_address <= this.network_address
            /\ \A j \in 1..Len(arg') :
                 Contains(cidr_str_of(arg'[j]), e.cidr_str)
                 => MapHas(cidr_map, cidr_str_of(arg'[j]))
            /\ MapHas(cidr_map', e.cidr_str)
            /\ \A n \in DOMAIN heap :
                 n \in DOMAIN heap' /\ heap'[n].parent = heap[n].parent]_vars

\* C30 is met when the loop has ended on a list of three blocks nested in each other,
\* handed over innermost first: the tree is the one the call as a whole gives
C30_Witness ==
  /\ op = "build_tree_from_list"
  /\ ret = Returned
  /\ arg = <<C4, B4, A4>>
  /\ value = [entries |-> sorted_entries(cidr_entries(arg)), i |-> 3]
  /\ value.entries[1].cidr = A4
  /\ TheTree = build_tree_from_list_call(EmptyTree, arg).tree
  /\ heap[MapGet(cidr_map, cidr_str_of(C4))].parent = MapGet(cidr_map, cidr_str_of(B4))

\* C31: add_cidr with a malformed block string does not raise and leaves the engine
\* unchanged: roots, cidr_map and every node's parent and children are the same as before
\* the call, and no partial node stays in the index.
C31_RejectedAddChangesNothing ==
  [][(op' = "add_cidr" /\ ~Valid(arg'[1]))
     => /\ ret'.exc = "none"
        /\ roots' = roots
        /\ cidr_map' = cidr_map
        /\ heap' = heap
        /\ ~MapHas(cidr_map', cidr_str_of(arg'[1]))]_vars

\* C31 is met after add_cidr has rejected a string on a tree that holds a parent and its
\* child
C31_Witness ==
  /\ op = "add_cidr"
  /\ ~Valid(arg[1])
  /\ ret = Reported
  /\ Len(cidr_map) >= 2
  /\ \E n \in DOMAIN heap : heap[n].parent # None

\* following the parent links from node n reaches a node of roots in at most fuel steps
RECURSIVE ReachesRoot(_, _, _)
ReachesRoot(t, n, fuel) ==
  IF n \notin DOMAIN t.heap THEN FALSE
  ELSE IF t.heap[n].parent = None THEN InSeq(t.roots, n)
  ELSE IF fuel = 0 THEN FALSE
  ELSE ReachesRoot(t, t.heap[n].parent, fuel - 1)

\* C32: after any sequence of add_cidr and build_tree_from_list calls, every node that
\* has a parent is strictly contained in that parent (same IP version, inside the parent's
\* range, longer prefix); hence following the parent links from any node reaches a root in
\* finitely many steps and no node is its own ancestor.
C32_ParentStrictlyContains ==
  \A i \in 1..Len(cidr_map) :
    LET n == cidr_map[i].node
    IN  /\ heap[n].parent # None
           => /\ heap[n].parent \in DOMAIN heap
              /\ Contains(heap[heap[n].parent].cidr, heap[n].cidr)
        /\ ReachesRoot(TheTree, n, Len(cidr_map))

\* C32 is met on a chain of three blocks whose middle block add_cidr has inserted last,
\* between a block and the block that was its child
C32_Witness ==
  /\ op = "add_cidr"
  /\ Len(cidr_map) = 3
  /\ heap[cidr_map[1].node].parent = None
  /\ heap[cidr_map[3].node].parent = cidr_map[1].node
  /\ heap[cidr_map[2].node].parent = cidr_map[3].node

\* C33: after any sequence of add_cidr calls, in any order, a node is in roots if and
\* only if no other inserted block strictly contains it.
C33_RootsAreTheUncontained ==
  /\ \A i \in 1..Len(roots) :
       \E j \in 1..Len(cidr_map) : cidr_map[j].node = roots[i]
  /\ \A j \in 1..Len(cidr_map) :
       InSeq(roots, cidr_map[j].node) <=> Containers(TheTree, cidr_map[j].key) = {}

\* C33 is met after add_cidr has put a block above a node that was a root, next to
\* another root
C33_Witness ==
  /\ op = "add_cidr"
  /\ Len(cidr_map) = 3
  /\ Len(roots) = 2
  /\ InSeq(roots, cidr_map[1].node)
  /\ InSeq(roots, cidr_map[3].node)
  /\ heap[cidr_map[2].node].parent = cidr_map[3].node

\* C34: add_cidr(B) leaves unchanged the parent of every existing node that B does not
\* strictly contain, and the cidr string and the attached object of every existing node.
C34_AddLeavesOthersAlone ==
  [][op' = "add_cidr"
     => \A i \in 1..Len(cidr_map) :
          LET n == cidr_map[i].node
          IN  /\ n \in DOMAIN heap'
              /\ heap'[n].cidr = heap[n].cidr
              /\ heap'[n].cidr_obj = heap[n].cidr_obj
              /\ ~(Valid(arg'[1]) /\ Contains(cidr_str_of(arg'[1]), cidr_map[i].key))
                 => heap'[n].parent = heap[n].parent]_vars

\* C34 is met after add_cidr has inserted a block next to a node that has a parent and
\* that the new block does not contain: the node is still under its parent
C34_Witness ==
  /\ op = "add_cidr"
  /\ Len(cidr_map) = 3
  /\ cidr_str_of(arg[1]) = cidr_map[3].key
  /\ heap[cidr_map[2].node].parent = cidr_map[1].node
  /\ heap[cidr_map[3].node].parent = cidr_map[1].node
  /\ ~Contains(cidr_map[3].key, cidr_map[2].key)

\* C35: build_tree_from_list completes without raising for every list of valid blocks,
\* including lists that hold an IPv4 and an IPv6 block of the same prefix length, and
\* afterwards every block of the list is in cidr_map.
C35_BuildAcceptsEveryValidList ==
  (op = "build_tree_from_list" /\ \A i \in 1..Len(arg) : Valid(arg[i]))
    => /\ ret.exc = "none"
       /\ \A i \in 1..Len(arg) : MapHas(cidr_map, cidr_str_of(arg[i]))

\* C36: when the IPAM holds both IPv4 and IPv6 blocks, get_child_cidrs and
\* find_available_cidr for a loaded parent complete without raising and take into account
\* only the blocks of the parent's IP version.
C36_MixedVersionsQueries ==
  (/\ op \in {"get_child_cidrs", "find_available_cidr"}
   /\ arg[1] \in LoadedKeys
   /\ \E k \in LoadedKeys : k.ver # arg[1].ver
   /\ op = "find_available_cidr"
        => (arg[2] > PrefixLen(arg[1]) /\ arg[2] <= Bits(arg[1].ver)))
  => /\ ret.exc = "none"
     /\ op = "get_child_cidrs"
          => {cidr_str_of(value[i]) : i \in 1..Len(value)} = DirectChildren(arg[1])
     /\ (op = "find_available_cidr" /\ value # NoneObj)
          => cidr_str_of(value) \in SubBlocks(arg[1], arg[2]) \ DirectChildren(arg[1])

\* C37: when build_tree_from_list raises, the forest it held before the call is
\* unchanged.
C37_FailedBuildKeepsForest ==
  [][(op' = "build_tree_from_list" /\ ret'.exc # "none")
     => /\ roots' = roots
        /\ cidr_map' = cidr_map
        /\ heap' = heap]_vars

\* C37 is met after a build has raised on the sort, on a tree of three blocks of both IP
\* versions that add_cidr calls had made
C37_Witness ==
  /\ op = "build_tree_from_list"
  /\ ret.exc = "TypeError"
  /\ Len(cidr_map) = 3
  /\ Len(roots) = 2
  /\ \E n \in DOMAIN heap : heap[n].parent # None

\* C38: once IPAM.build_hierarchy has been called, after every later load_static_cidrs or
\* load_cloud_cidrs call, whether it returns normally or raises, every key of IPAM.cidrs
\* is a key of cidr_tree.cidr_map; before build_hierarchy is first called the load
\* operations never modify cidr_tree.
C38_TreeFollowsLoads ==
  [][op' \in {"load_static_cidrs", "load_cloud_cidrs"}
     => IF _cidrs_loaded
        THEN LoadedKeys' \subseteq MapKeys(cidr_map')
        ELSE /\ roots' = roots
             /\ cidr_map' = cidr_map
             /\ heap' = heap]_vars

AltParentAssignment ==
  {[cidr   |-> heap[n].cidr,
    parent |-> IF heap[n].parent = rootCidrNode THEN NoParent
               ELSE heap[heap[n].parent].cidr] : n \in AltNodes}

\* C40: the two engines agree: for every list of distinct valid blocks,
\* formTreeFromCidrList and build_tree_from_list assign every block the same parent, the
\* null root of the former corresponding to the root set of the latter.
C40_EnginesAgree ==
  (op = "formTreeFromCidrList" /\ DistinctValid(arg))
  => LET built == build_tree_from_list_call(EmptyTree, arg)
     IN  /\ ret = Returned
         /\ built.ret.exc = "none"
         /\ AltParentAssignment = ParentAssignment(built.tree)
         /\ {heap[n].cidr : n \in SeqSet(heap[rootCidrNode].chickenList)}
              = RootSet(built.tree)

====
